---- MODULE Spec2Model ----
(***************************************************************************)
(* Scheduling and dispatch core of the social media automation platform:   *)
(* the Post and Schedule tables, the Celery task queue and its workers,    *)
(* the periodic scans, the schedule tick and the multi-platform dispatch.  *)
(* Instants are minutes since Monday 2024-01-01 00:00.                     *)
(***************************************************************************)
EXTENDS Integers, Sequences, FiniteSets, Bags, TLC

\* ---------------------------------------------------------------- bounds
MaxPosts == 4
MaxUploads == 1
MaxSchedules == 1
MaxQueue == 2
NWorkers == 2
MaxRedeliveries == 1
MaxRequests == 1
MaxCursor == 10
MaxPathLen == 3

\* ------------------------------------------------------- program constants
\* A nullable DateTime column that holds no value.
NULL == -1
MinutesPerHour == 60
MinutesPerDay == 1440
DaysPerWeek == 7
\* process_scheduled_posts: the scan window around now.
BufferMinutes == 1
StaleMinutes == 5
\* The user_id every handler defaults to.
DefaultUser == 1
\* timedelta(days=30), the month of the preview.
DaysPerMonthApprox == 30

\* ------------------------------------------------------------ input sets
\* The instants the clock visits: 09:00, 09:01 and 10:01 of Wednesday
\* 2024-01-31.
Instants == <<43740, 43741, 43801>>
\* linkedin is a platform name without a service class.
Platforms == {"twitter", "facebook", "linkedin"}
\* platform_ids of a request, target_platforms of a schedule.
PlatformLists == {<<>>, <<"twitter">>, <<"facebook", "twitter">>, <<"linkedin", "twitter">>}
\* The active social accounts of the user, in id order (one row per platform).
AccountLists == {<<>>, <<"twitter">>, <<"facebook", "twitter">>, <<"linkedin", "twitter">>}
\* content_queue values: items are named by numbers.
ContentQueues == {<<>>, <<1, 2>>, <<1, 2, 3, 4>>}
\* (schedule_type, schedule_data) of a created schedule.
ScheduleConfigs ==
    { [schedule_type |-> "once", time |-> <<9, 0>>, day_of_week |-> 1,
       day_of_month |-> 1, datetime |-> 43740],
      [schedule_type |-> "daily", time |-> <<9, 1>>, day_of_week |-> 1,
       day_of_month |-> 1, datetime |-> NULL],
      [schedule_type |-> "monthly", time |-> <<9, 1>>, day_of_week |-> 1,
       day_of_month |-> 31, datetime |-> NULL] }

\* Configurations a creation request may carry beside those above: a time of
\* 25:00, a one-shot without its 'datetime', day_of_week 9, day_of_month 32,
\* and a kind that is none of once, daily, weekly, monthly.
MalformedConfigs ==
    { [schedule_type |-> "daily", time |-> <<25, 0>>, day_of_week |-> 1,
       day_of_month |-> 1, datetime |-> NULL],
      [schedule_type |-> "once", time |-> <<9, 0>>, day_of_week |-> 1,
       day_of_month |-> 1, datetime |-> NULL],
      [schedule_type |-> "weekly", time |-> <<9, 1>>, day_of_week |-> 9,
       day_of_month |-> 1, datetime |-> NULL],
      [schedule_type |-> "monthly", time |-> <<9, 1>>, day_of_week |-> 1,
       day_of_month |-> 32, datetime |-> NULL],
      [schedule_type |-> "hourly", time |-> <<9, 1>>, day_of_week |-> 1,
       day_of_month |-> 1, datetime |-> NULL] }

\* The user_id a request may carry, and the ids it may address: those of the
\* rows that can exist and one more.
Users == {DefaultUser, DefaultUser + 1}
RequestedSchedules == 1..(MaxSchedules + 1)
RequestedPosts == 1..(MaxUploads + 1)

\* The values the integer column current_index is drawn from, and the content
\* queues of the stored rows.
StoredCursors == (0 - MaxCursor)..MaxCursor
CursorQueues == {<<>>, <<1, 2>>, <<1, 2, 3>>}

VARIABLES
    now,        \* datetime.now()
    clock,      \* index of now in Instants
    accounts,   \* social_accounts rows with is_active, in id order
    posts,      \* posts table: id -> row
    schedules,  \* schedules table: id -> row
    queue,      \* broker: bag of task messages
    running,    \* bag of the task executions in progress on workers, with their locals
    ret,        \* return value (or raise) of the task or request that ended last
    redelivered, \* number of redeliveries so far
    requests,   \* number of API requests so far
    calc        \* the last evaluation of the recurrence calculators

vars == <<now, clock, accounts, posts, schedules, queue, running, ret, redelivered, requests,
          calc>>

NoOrigin == [schedule_id |-> 0, current_index |-> 0, next_execution |-> NULL,
             last_executed |-> NULL, is_active |-> FALSE, at |-> NULL]
NoLocal == [current_index |-> 0, queue_len |-> 0, post_id |-> 0]
NoRet == [task |-> "none", status |-> "none", reason |-> "none", value |-> <<>>]
NoCalc == [called |-> FALSE, schedule_type |-> "none", time |-> <<0, 0>>, day_of_week |-> 0,
           day_of_month |-> 0, datetime |-> NULL, now |-> NULL, task |-> NULL, api |-> NULL,
           again |-> FALSE, now2 |-> NULL, task2 |-> NULL, api2 |-> NULL]

PostIds == 1..Len(posts)
\* The ids of the Schedule rows in the table; a deleted row keeps its place
\* in schedules, its id is not given again.
ScheduleIds == {s \in 1..Len(schedules) : ~schedules[s].deleted}

\* ------------------------------------------------------------- the broker
Enqueue(q, m) == q (+) SetToBag({m})
Dequeue(q, m) == q (-) SetToBag({m})
Room(n) == BagCardinality(queue) + n <= MaxQueue
\* A worker is free to take a task.
FreeWorker == BagCardinality(running) < NWorkers

Init ==
    /\ clock = 1
    /\ now = Instants[1]
    /\ accounts \in AccountLists
    /\ posts = <<>>
    /\ schedules = <<>>
    /\ queue = EmptyBag
    /\ running = EmptyBag
    /\ ret = NoRet
    /\ redelivered = 0
    /\ requests = 0
    /\ calc = NoCalc

\* ------------------------------------------------------------ Post rows
\* platforms is platform_data['platforms'] and results is
\* platform_data['posting_results'] (<<>> when the key is absent). origin,
\* targets and pubs are history: the schedule state the tick that
\* materialized the row read, the platforms the row was last scheduled for,
\* and the publish calls made per platform since then (0, 1, or 2 for two
\* or more).
NoPubs == [pl \in Platforms |-> 0]
NewPost(status, scheduled_time, item, origin, targets) ==
    [user_id |-> DefaultUser,
     status |-> status, scheduled_time |-> scheduled_time, posted_at |-> NULL,
     platforms |-> <<>>, results |-> <<>>, item |-> item, origin |-> origin,
     targets |-> targets, pubs |-> NoPubs]
Msg(task, id, platform_ids, time) ==
    [task |-> task, id |-> id, platform_ids |-> platform_ids, time |-> time]
Ret(task, status, reason) ==
    [task |-> task, status |-> status, reason |-> reason, value |-> <<>>]
Bump(n) == IF n >= 2 THEN 2 ELSE n + 1
HasAccount(platform) == \E k \in 1..Len(accounts) : accounts[k] = platform
\* get_platform_service: the platforms that have a service class.
HasService(platform) ==
    platform \in {"instagram", "facebook", "twitter", "youtube", "tiktok"}

\* The wall clock moves on.
AdvanceClock ==
    /\ clock < Len(Instants)
    /\ clock' = clock + 1
    /\ now' = Instants[clock + 1]
    /\ UNCHANGED <<accounts, posts, schedules, queue, running, ret, redelivered, requests, calc>>

\* POST /upload: a new Post row with status uploaded.
UploadFile ==
    /\ Len(posts) < MaxUploads
    /\ posts' = Append(posts, NewPost("uploaded", now, 0, NoOrigin, <<>>))
    /\ ret' = Ret("upload_file", "success", "none")
    /\ UNCHANGED <<now, clock, accounts, schedules, queue, running, redelivered, requests, calc>>

\* db.query(Post).filter(Post.id == post_id, Post.user_id == user_id).first()
FindPost(post_id, user_id) ==
    /\ post_id \in PostIds
    /\ posts[post_id].user_id = user_id
\* db.query(Schedule).filter(Schedule.id == schedule_id,
\* Schedule.user_id == user_id).first()
FindSchedule(schedule_id, user_id) ==
    /\ schedule_id \in 1..Len(schedules)
    /\ ~schedules[schedule_id].deleted
    /\ schedules[schedule_id].user_id = user_id
\* raise HTTPException(status_code=404): the handler ends, nothing is written.
NotFound(handler, detail) ==
    /\ ret' = Ret(handler, "not_found", detail)
    /\ UNCHANGED <<now, clock, accounts, posts, schedules, queue, running, redelivered,
                   requests, calc>>

\* Mutant: the Post is looked up by id alone.
ScheduleSinglePost_AnyOwner(p, platform_ids, scheduled_time, user_id) ==
    IF p \notin PostIds
    THEN NotFound("schedule_single_post", "Post not found")
    ELSE /\ Room(1)
         /\ requests < MaxRequests
         /\ requests' = requests + 1
         /\ posts' = [posts EXCEPT ![p].scheduled_time = scheduled_time,
                                   ![p].status = "scheduled",
                                   ![p].platforms = platform_ids,
                                   ![p].results = <<>>,
                                   ![p].targets = platform_ids,
                                   ![p].pubs = NoPubs]
         /\ queue' = Enqueue(queue, Msg("schedule_post_task", p, platform_ids, scheduled_time))
         /\ ret' = Ret("schedule_single_post", "success", "none")
         /\ UNCHANGED <<now, clock, accounts, schedules, running, redelivered, calc>>

\* POST /schedule/post: a Post that is not the caller's is answered with 404;
\* otherwise the row is set to scheduled with the request's platforms, and
\* schedule_post_task is handed to the background tasks (held in queue until
\* it runs).
ScheduleSinglePost(p, platform_ids, scheduled_time, user_id) ==
    IF ~FindPost(p, user_id)
    THEN NotFound("schedule_single_post", "Post not found")
    ELSE /\ Room(1)
         /\ requests < MaxRequests
         /\ requests' = requests + 1
         /\ posts' = [posts EXCEPT ![p].scheduled_time = scheduled_time,
                                   ![p].status = "scheduled",
                                   ![p].platforms = platform_ids,
                                   ![p].results = <<>>,
                                   ![p].targets = platform_ids,
                                   ![p].pubs = NoPubs]
         /\ queue' = Enqueue(queue, Msg("schedule_post_task", p, platform_ids, scheduled_time))
         /\ ret' = Ret("schedule_single_post", "success", "none")
         /\ UNCHANGED <<now, clock, accounts, schedules, running, redelivered, calc>>

\* schedule_post_task: dispatch now when the time has come, else with an eta.
SchedulePostTask(m) ==
    /\ m.task = "schedule_post_task"
    /\ m.id \in PostIds
    /\ FreeWorker
    /\ IF m.time <= now
       THEN /\ queue' = Enqueue(Dequeue(queue, m),
                                Msg("post_to_multiple_platforms", m.id, m.platform_ids, 0))
            /\ posts' = posts
            /\ ret' = Ret("schedule_post_task", "posted_immediately", "none")
       ELSE /\ queue' = Enqueue(Dequeue(queue, m),
                                Msg("post_to_multiple_platforms", m.id, m.platform_ids, m.time))
            /\ posts' = [posts EXCEPT ![m.id].status = "scheduled",
                                      ![m.id].scheduled_time = m.time]
            /\ ret' = Ret("schedule_post_task", "scheduled", "none")
    /\ UNCHANGED <<now, clock, accounts, schedules, running, redelivered, requests, calc>>

\* process_scheduled_posts: the rows the per-minute scan selects. The broker
\* is reachable: delay() does not raise.
ScanWindow(p) ==
    /\ posts[p].status = "scheduled"
    /\ posts[p].scheduled_time <= now + BufferMinutes
    /\ posts[p].scheduled_time >= now - StaleMinutes
\* The message the scan enqueues for a selected row, if any.
ScanMessages(p) ==
    IF posts[p].platforms # <<>>
    THEN {Msg("post_to_multiple_platforms", p, posts[p].platforms, 0)}
    ELSE IF accounts # <<>>
         THEN {Msg("post_to_platform", p, <<accounts[1]>>, 0)}
         ELSE {}
ProcessScheduledPosts ==
    LET selected == {p \in PostIds : ScanWindow(p)}
        msgs == UNION {ScanMessages(p) : p \in selected}
    IN /\ selected # {}
       /\ Room(Cardinality(msgs))
       /\ queue' = queue (+) SetToBag(msgs)
       /\ ret' = Ret("process_scheduled_posts", "success", "none")
       /\ UNCHANGED <<now, clock, accounts, posts, schedules, running, redelivered, requests, calc>>

\* post_to_multiple_platforms, lines 157-162: the status the results reduce to.
SuccessCount(results) ==
    Cardinality({k \in 1..Len(results) : results[k].status = "success"})
\* Mutant: any success counts as posted (the partial case is lost).
AggregateStatus_AnySuccess(results, total_platforms) ==
    IF SuccessCount(results) > 0 THEN "posted" ELSE "failed"
\* Mutant: the last platform's outcome decides between success and failure.
AggregateStatus_LastOutcome(results, total_platforms) ==
    IF results # <<>> /\ results[Len(results)].status = "success"
    THEN IF SuccessCount(results) = total_platforms THEN "posted" ELSE "partially_posted"
    ELSE "failed"
AggregateStatus(results, total_platforms) ==
    IF SuccessCount(results) > 0
    THEN IF SuccessCount(results) = total_platforms THEN "posted" ELSE "partially_posted"
    ELSE "failed"

\* post_to_multiple_platforms starts on a worker: the row is loaded.
MultiStart(m) ==
    /\ FreeWorker
    /\ m.task = "post_to_multiple_platforms"
    /\ m.time <= now
    /\ m.id \in PostIds
    /\ running' = Enqueue(running,
           [task |-> "post_to_multiple_platforms", id |-> m.id,
            platform_ids |-> m.platform_ids, results |-> <<>>, local |-> NoLocal])
    /\ queue' = Dequeue(queue, m)
    /\ UNCHANGED <<now, clock, accounts, posts, schedules, ret, redelivered, requests, calc>>

\* Mutant: a failed platform ends the dispatch with a raise.
MultiStep_FailureRaises(e, ok) ==
    LET platform == e.platform_ids[Len(e.results) + 1]
        called == HasAccount(platform) /\ HasService(platform)
    IN /\ e.task = "post_to_multiple_platforms"
       /\ Len(e.results) < Len(e.platform_ids)
       /\ called \/ ~ok
       /\ IF called /\ ok
          THEN /\ running' = Enqueue(Dequeue(running, e),
                      [e EXCEPT !.results =
                           Append(@, [platform |-> platform, status |-> "success"])])
               /\ ret' = ret
          ELSE /\ running' = Dequeue(running, e)
               /\ ret' = Ret("post_to_multiple_platforms", "raised", "none")
       /\ posts' = IF called
                   THEN [posts EXCEPT ![e.id].pubs[platform] = Bump(@)]
                   ELSE posts
       /\ UNCHANGED <<now, clock, accounts, schedules, queue, redelivered, requests, calc>>

\* One iteration of the loop over platform_ids: the outcome of one platform.
\* Without an active account for the platform no publish call is made.
MultiStep(e, ok) ==
    LET platform == e.platform_ids[Len(e.results) + 1]
        called == HasAccount(platform) /\ HasService(platform)
        status == IF called /\ ok THEN "success" ELSE "failed"
    IN /\ e.task = "post_to_multiple_platforms"
       /\ Len(e.results) < Len(e.platform_ids)
       /\ called \/ ~ok
       /\ running' = Enqueue(Dequeue(running, e),
              [e EXCEPT !.results = Append(@, [platform |-> platform, status |-> status])])
       /\ posts' = IF called
                   THEN [posts EXCEPT ![e.id].pubs[platform] = Bump(@)]
                   ELSE posts
       /\ UNCHANGED <<now, clock, accounts, schedules, queue, ret, redelivered, requests, calc>>

\* Mutant: the status is written although the loop has not reached the end.
MultiFinish_Early(e) ==
    /\ e.task = "post_to_multiple_platforms"
    /\ Len(e.results) <= Len(e.platform_ids)
    /\ posts' = [posts EXCEPT
           ![e.id].status = AggregateStatus(e.results, Len(e.platform_ids)),
           ![e.id].posted_at = IF SuccessCount(e.results) > 0 THEN now ELSE @,
           ![e.id].platforms = <<>>,
           ![e.id].results = e.results]
    /\ running' = Dequeue(running, e)
    /\ ret' = Ret("post_to_multiple_platforms", "success", "none")
    /\ UNCHANGED <<now, clock, accounts, schedules, queue, redelivered, requests, calc>>

\* After the loop: the aggregate status and the results are written.
MultiFinish(e) ==
    /\ e.task = "post_to_multiple_platforms"
    /\ Len(e.results) = Len(e.platform_ids)
    /\ posts' = [posts EXCEPT
           ![e.id].status = AggregateStatus(e.results, Len(e.platform_ids)),
           ![e.id].posted_at = IF SuccessCount(e.results) > 0 THEN now ELSE @,
           ![e.id].platforms = <<>>,
           ![e.id].results = e.results]
    /\ running' = Dequeue(running, e)
    /\ ret' = Ret("post_to_multiple_platforms", "success", "none")
    /\ UNCHANGED <<now, clock, accounts, schedules, queue, redelivered, requests, calc>>

\* post_to_platform: one publish call, then posted, or failed and a raise.
PostToPlatform(m, ok) ==
    /\ m.task = "post_to_platform"
    /\ m.id \in PostIds
    /\ FreeWorker
    /\ queue' = Dequeue(queue, m)
    /\ IF ok /\ HasService(m.platform_ids[1])
       THEN /\ posts' = [posts EXCEPT ![m.id].status = "posted",
                                      ![m.id].posted_at = now,
                                      ![m.id].pubs[m.platform_ids[1]] = Bump(@)]
            /\ ret' = Ret("post_to_platform", "success", "none")
       ELSE /\ posts' = [posts EXCEPT ![m.id].status = "failed",
                                      ![m.id].pubs[m.platform_ids[1]] =
                                          IF HasService(m.platform_ids[1]) THEN Bump(@) ELSE @]
            /\ ret' = Ret("post_to_platform", "raised", "none")
    /\ UNCHANGED <<now, clock, accounts, schedules, running, redelivered, requests, calc>>

\* The broker delivers a task message a second time (a Redis broker with the
\* default acknowledgement settings is at-least-once). schedule_post_task is
\* run by the API process as a background task and never passes the broker.
Redeliver(m) ==
    /\ m.task # "schedule_post_task"
    /\ redelivered < MaxRedeliveries
    /\ Room(1)
    /\ queue' = Enqueue(queue, m)
    /\ redelivered' = redelivered + 1
    /\ UNCHANGED <<now, clock, accounts, posts, schedules, running, ret, requests, calc>>

\* ------------------------------------------------------------ calendar
\* datetime arithmetic on instants (minutes since Monday 2024-01-01 00:00).
EpochYear == 2024
\* The result of a computation that raised (ValueError of datetime.replace,
\* TypeError of fromisoformat(None)).
Raised == -2
IsLeap(y) == (y % 4 = 0 /\ y % 100 # 0) \/ y % 400 = 0
DaysInYear(y) == IF IsLeap(y) THEN 366 ELSE 365
DaysInMonth(y, m) ==
    IF m = 2 THEN (IF IsLeap(y) THEN 29 ELSE 28)
    ELSE IF m \in {4, 6, 9, 11} THEN 30 ELSE 31
RECURSIVE DaysBeforeYear(_)
DaysBeforeYear(y) == IF y <= EpochYear THEN 0 ELSE DaysBeforeYear(y - 1) + DaysInYear(y - 1)
RECURSIVE DaysBeforeMonth(_, _)
DaysBeforeMonth(y, m) == IF m <= 1 THEN 0 ELSE DaysBeforeMonth(y, m - 1) + DaysInMonth(y, m - 1)
RECURSIVE YearOfDay(_, _)
YearOfDay(y, d) == IF d < DaysInYear(y) THEN <<y, d>> ELSE YearOfDay(y + 1, d - DaysInYear(y))
RECURSIVE MonthOfDay(_, _, _)
MonthOfDay(y, m, d) ==
    IF d < DaysInMonth(y, m) THEN <<m, d + 1>> ELSE MonthOfDay(y, m + 1, d - DaysInMonth(y, m))
\* The fields of a datetime; weekday is datetime.weekday(), Monday = 0.
DateOf(t) ==
    LET days == t \div MinutesPerDay
        yd == YearOfDay(EpochYear, days)
        md == MonthOfDay(yd[1], 1, yd[2])
    IN [year |-> yd[1], month |-> md[1], day |-> md[2],
        hour |-> (t % MinutesPerDay) \div MinutesPerHour,
        minute |-> t % MinutesPerHour,
        weekday |-> days % DaysPerWeek]
\* datetime(year, month, day, hour, minute), or Raised for a day the month lacks.
MakeInstant(y, m, d, h, mi) ==
    IF d < 1 \/ d > DaysInMonth(y, m) \/ h < 0 \/ h > 23 \/ mi < 0 \/ mi > 59
    THEN Raised
    ELSE (DaysBeforeYear(y) + DaysBeforeMonth(y, m) + d - 1) * MinutesPerDay
         + h * MinutesPerHour + mi

\* Mutant: a run time equal to now is not rolled to the next day.
NextDaily_NoRoll(c, t) ==
    LET d == DateOf(t)
        next_run == MakeInstant(d.year, d.month, d.day, c.time[1], c.time[2])
    IN IF next_run = Raised THEN Raised
       ELSE IF next_run < t THEN next_run + MinutesPerDay ELSE next_run

\* calculate_next_execution_time (posting_tasks.py): the next run of a
\* schedule with configuration c, computed at instant t.
NextDaily(c, t) ==
    LET d == DateOf(t)
        next_run == MakeInstant(d.year, d.month, d.day, c.time[1], c.time[2])
    IN IF next_run = Raised THEN Raised
       ELSE IF next_run <= t THEN next_run + MinutesPerDay ELSE next_run
NextWeekly(c, t) ==
    LET d == DateOf(t)
        days_ahead == IF c.day_of_week - d.weekday <= 0
                      THEN c.day_of_week - d.weekday + DaysPerWeek
                      ELSE c.day_of_week - d.weekday
        shifted == DateOf(t + days_ahead * MinutesPerDay)
    IN MakeInstant(shifted.year, shifted.month, shifted.day, c.time[1], c.time[2])
NextMonthly(c, t) ==
    LET d == DateOf(t)
        next_run == MakeInstant(d.year, d.month, c.day_of_month, c.time[1], c.time[2])
    IN IF next_run = Raised THEN Raised
       ELSE IF next_run <= t
            THEN IF d.month = 12
                 THEN MakeInstant(d.year + 1, 1, c.day_of_month, c.time[1], c.time[2])
                 ELSE MakeInstant(d.year, d.month + 1, c.day_of_month, c.time[1], c.time[2])
            ELSE next_run
calculate_next_execution_time(c, t) ==
    IF c.schedule_type = "daily" THEN NextDaily(c, t)
    ELSE IF c.schedule_type = "weekly" THEN NextWeekly(c, t)
    ELSE IF c.schedule_type = "monthly" THEN NextMonthly(c, t)
    ELSE t + MinutesPerHour

\* calculate_next_execution (api/scheduling.py), used when a schedule is created.
calculate_next_execution(c, t) ==
    IF c.schedule_type = "once"
    THEN (IF c.datetime = NULL THEN Raised ELSE c.datetime)
    ELSE IF c.schedule_type = "daily" THEN NextDaily(c, t)
    ELSE IF c.schedule_type = "weekly" THEN NextWeekly(c, t)
    ELSE IF c.schedule_type = "monthly" THEN NextMonthly(c, t)
    ELSE t + MinutesPerHour

\* The configuration the calculators are called with.
CalcConfig ==
    [schedule_type |-> calc.schedule_type, time |-> calc.time,
     day_of_week |-> calc.day_of_week, day_of_month |-> calc.day_of_month,
     datetime |-> calc.datetime]
\* The two calculators are called with the configuration in calc; their
\* datetime.now() returns calc.now. task is the value of
\* calculate_next_execution_time, api that of calculate_next_execution (Raised
\* when the call raised).
Calculate ==
    LET c == CalcConfig
    IN /\ ~calc.called
       /\ calc.now # NULL
       /\ calc' = [calc EXCEPT !.called = TRUE,
                               !.task = calculate_next_execution_time(c, calc.now),
                               !.api = calculate_next_execution(c, calc.now)]
       /\ UNCHANGED <<now, clock, accounts, posts, schedules, queue, running, ret,
                      redelivered, requests>>
\* The calculators take the configuration and no instant: a caller that calls
\* them again with the same arguments gets the value for what datetime.now()
\* returns inside the second call, the same minute or the next.
CalculateAgain ==
    /\ calc.called
    /\ ~calc.again
    /\ \E t \in {calc.now, calc.now + 1} :
           calc' = [calc EXCEPT !.again = TRUE,
                                !.now2 = t,
                                !.task2 = calculate_next_execution_time(CalcConfig, t),
                                !.api2 = calculate_next_execution(CalcConfig, t)]
    /\ UNCHANGED <<now, clock, accounts, posts, schedules, queue, running, ret,
                   redelivered, requests>>
\* The valid parameter sets of the recurring kinds.
RecurringConfigs ==
    [schedule_type : {"daily", "weekly", "monthly"},
     time : {<<0, 0>>, <<9, 0>>, <<23, 59>>},
     day_of_week : 1..DaysPerWeek,
     day_of_month : {1, 29, 30, 31},
     datetime : {NULL}]
\* One-shot configurations: the instant is Wednesday 2024-01-31 09:00 or
\* Saturday 2024-06-01 12:00, or the key is absent.
OnceConfigs ==
    [schedule_type : {"once"},
     time : {<<0, 0>>},
     day_of_week : {1},
     day_of_month : {1},
     datetime : {NULL, MakeInstant(2024, 1, 31, 9, 0), MakeInstant(2024, 6, 1, 12, 0)}]
\* Kinds neither calculator has a branch for; schedule_data carries nothing
\* either of them reads.
OtherConfigs ==
    [schedule_type : {"custom", "hourly"},
     time : {<<0, 0>>},
     day_of_week : {1},
     day_of_month : {1},
     datetime : {NULL}]
CalcConfigs == RecurringConfigs \cup OnceConfigs \cup OtherConfigs
\* Values of datetime.now(): Wednesday 2024-01-31 09:00 and 10:00, Monday
\* 2024-01-01 00:00, Sunday 2024-02-04 09:00, the leap day at 23:59, the last
\* day of April, the last day of the year, and Friday 2025-01-31 08:59.
CalcNows ==
    { MakeInstant(2024, 1, 31, 9, 0), MakeInstant(2024, 1, 31, 10, 0),
      MakeInstant(2024, 1, 1, 0, 0), MakeInstant(2024, 2, 4, 9, 0),
      MakeInstant(2024, 2, 29, 23, 59), MakeInstant(2024, 4, 30, 9, 0),
      MakeInstant(2024, 12, 31, 9, 0), MakeInstant(2025, 1, 31, 8, 59) }

\* --------------------------------------------------------- Schedule rows
\* stalled is history: a tick of the schedule raised in the recurrence
\* computation.
\* POST /schedule/create: the row is stored with the next execution computed
\* by calculate_next_execution; a raise stores nothing. The beat entry that
\* create_recurring_schedule adds lives in the API process only.
CreateSchedule(c, content_queue, target_platforms) ==
    /\ Len(schedules) < MaxSchedules
    /\ IF calculate_next_execution(c, now) = Raised
       THEN /\ schedules' = schedules
            /\ ret' = Ret("create_schedule", "raised", "none")
       ELSE /\ schedules' = Append(schedules,
                  [user_id |-> DefaultUser, deleted |-> FALSE,
                   config |-> c, content_queue |-> content_queue, current_index |-> 0,
                   target_platforms |-> target_platforms, is_active |-> TRUE,
                   next_execution |-> calculate_next_execution(c, now),
                   last_executed |-> NULL, stalled |-> FALSE])
            /\ ret' = Ret("create_schedule", "success", "none")
    /\ UNCHANGED <<now, clock, accounts, posts, queue, running, redelivered, requests, calc>>

\* check_and_execute_schedules: one execute_schedule per due schedule.
IsDue(s) ==
    /\ schedules[s].is_active
    /\ schedules[s].next_execution # NULL
    /\ schedules[s].next_execution <= now
CheckAndExecuteSchedules ==
    LET due == {s \in ScheduleIds : IsDue(s)}
    IN /\ due # {}
       /\ Room(Cardinality(due))
       /\ queue' = queue (+) SetToBag({Msg("execute_schedule", s, <<>>, 0) : s \in due})
       /\ ret' = Ret("check_and_execute_schedules", "success", "none")
       /\ UNCHANGED <<now, clock, accounts, posts, schedules, running, redelivered, requests, calc>>

\* execute_schedule, lines 261-265: the index the tick uses.
TickIndex(current_index, content_queue) ==
    IF current_index >= Len(content_queue) THEN 0 ELSE current_index
\* content_queue[current_index] as Python evaluates it: a negative index counts
\* from the end, an index outside -len..len-1 raises IndexError.
PyIndex(content_queue, i) ==
    IF i >= 0 /\ i < Len(content_queue) THEN content_queue[i + 1]
    ELSE IF i < 0 /\ i >= 0 - Len(content_queue) THEN content_queue[Len(content_queue) + i + 1]
    ELSE Raised
\* What the tick read of the schedule when it materialized a Post.
Origin(s) ==
    [schedule_id |-> s, current_index |-> schedules[s].current_index,
     next_execution |-> schedules[s].next_execution,
     last_executed |-> schedules[s].last_executed,
     is_active |-> schedules[s].is_active, at |-> now]
\* The Post row execute_schedule creates from the schedule it read.
MaterializedPost(s) ==
    NewPost("scheduled", now,
            PyIndex(schedules[s].content_queue,
                    TickIndex(schedules[s].current_index, schedules[s].content_queue)),
            Origin(s), schedules[s].target_platforms)

\* execute_schedule, lines 251-254: a missing or inactive schedule is skipped.
SkipInactive(m) ==
    /\ m.id \notin ScheduleIds \/ ~schedules[m.id].is_active
    /\ queue' = Dequeue(queue, m)
    /\ ret' = Ret("execute_schedule", "skipped", "Schedule not found or inactive")
    /\ UNCHANGED <<posts, running, schedules>>

\* Mutant: an empty content queue deactivates the schedule.
SkipNoContent_Deactivates(m) ==
    /\ m.id \in ScheduleIds
    /\ schedules[m.id].is_active
    /\ schedules[m.id].content_queue = <<>>
    /\ queue' = Dequeue(queue, m)
    /\ ret' = Ret("execute_schedule", "skipped", "No content in queue")
    /\ schedules' = [schedules EXCEPT ![m.id].is_active = FALSE]
    /\ UNCHANGED <<posts, running>>

\* execute_schedule, lines 256-259: an empty content queue is skipped.
SkipNoContent(m) ==
    /\ m.id \in ScheduleIds
    /\ schedules[m.id].is_active
    /\ schedules[m.id].content_queue = <<>>
    /\ queue' = Dequeue(queue, m)
    /\ ret' = Ret("execute_schedule", "skipped", "No content in queue")
    /\ UNCHANGED <<posts, running, schedules>>

\* Mutant: a paused schedule is materialized all the same.
Materialize_IgnoresActive(m) ==
    /\ m.id \in ScheduleIds
    /\ schedules[m.id].content_queue # <<>>
    /\ Len(posts) < MaxPosts
    /\ IF PyIndex(schedules[m.id].content_queue,
                  TickIndex(schedules[m.id].current_index,
                            schedules[m.id].content_queue)) = Raised
       THEN /\ queue' = Dequeue(queue, m)
            /\ ret' = Ret("execute_schedule", "raised", "none")
            /\ UNCHANGED <<posts, running, schedules>>
       ELSE /\ posts' = Append(posts, MaterializedPost(m.id))
            /\ queue' = IF schedules[m.id].target_platforms # <<>>
                        THEN Enqueue(Dequeue(queue, m),
                                 Msg("post_to_multiple_platforms", Len(posts) + 1,
                                     schedules[m.id].target_platforms, 0))
                        ELSE Dequeue(queue, m)
            /\ running' = Enqueue(running,
                   [task |-> "execute_schedule", id |-> m.id, platform_ids |-> <<>>,
                    results |-> <<>>,
                    local |-> [current_index |-> TickIndex(schedules[m.id].current_index,
                                                           schedules[m.id].content_queue),
                               queue_len |-> Len(schedules[m.id].content_queue),
                               post_id |-> Len(posts) + 1]])
            /\ UNCHANGED <<ret, schedules>>

\* execute_schedule, lines 261-285: a Post is committed from the current
\* content and its dispatch to the target platforms is enqueued; the index
\* and the queue length the tick read stay in its locals. When indexing the
\* queue raises, the task ends there.
Materialize(m) ==
    /\ m.id \in ScheduleIds
    /\ schedules[m.id].is_active
    /\ schedules[m.id].content_queue # <<>>
    /\ Len(posts) < MaxPosts
    /\ IF PyIndex(schedules[m.id].content_queue,
                  TickIndex(schedules[m.id].current_index,
                            schedules[m.id].content_queue)) = Raised
       THEN /\ queue' = Dequeue(queue, m)
            /\ ret' = Ret("execute_schedule", "raised", "none")
            /\ UNCHANGED <<posts, running, schedules>>
       ELSE /\ posts' = Append(posts, MaterializedPost(m.id))
            /\ queue' = IF schedules[m.id].target_platforms # <<>>
                        THEN Enqueue(Dequeue(queue, m),
                                 Msg("post_to_multiple_platforms", Len(posts) + 1,
                                     schedules[m.id].target_platforms, 0))
                        ELSE Dequeue(queue, m)
            /\ running' = Enqueue(running,
                   [task |-> "execute_schedule", id |-> m.id, platform_ids |-> <<>>,
                    results |-> <<>>,
                    local |-> [current_index |-> TickIndex(schedules[m.id].current_index,
                                                           schedules[m.id].content_queue),
                               queue_len |-> Len(schedules[m.id].content_queue),
                               post_id |-> Len(posts) + 1]])
            /\ UNCHANGED <<ret, schedules>>

\* execute_schedule starts on a worker and runs up to the dispatch.
ExecuteScheduleBegin(m) ==
    /\ m.task = "execute_schedule"
    /\ FreeWorker
    /\ SkipInactive(m) \/ SkipNoContent(m) \/ Materialize(m)
    /\ UNCHANGED <<now, clock, accounts, redelivered, requests, calc>>

\* execute_schedule, lines 287-302: the schedule row is advanced and committed;
\* when the recurrence computation raises, the row stays as it is, and so it
\* does when the row was deleted meanwhile (the session's UPDATE finds no row
\* and raises).
ExecuteScheduleCommit(e) ==
    /\ e.task = "execute_schedule"
    /\ running' = Dequeue(running, e)
    /\ IF e.id \notin ScheduleIds
       THEN /\ schedules' = schedules
            /\ ret' = Ret("execute_schedule", "raised", "none")
       ELSE IF calculate_next_execution_time(schedules[e.id].config, now) = Raised
       THEN /\ schedules' = [schedules EXCEPT ![e.id].stalled = TRUE]
            /\ ret' = Ret("execute_schedule", "raised", "none")
       ELSE /\ schedules' = [schedules EXCEPT
                   ![e.id].current_index = (e.local.current_index + 1) % e.local.queue_len,
                   ![e.id].last_executed = now,
                   ![e.id].next_execution =
                       calculate_next_execution_time(schedules[e.id].config, now)]
            /\ ret' = Ret("execute_schedule", "success", "none")
    /\ UNCHANGED <<now, clock, accounts, posts, queue, redelivered, requests, calc>>

\* Mutant: an index equal to the new length is kept.
UpdateScheduleQueue_OffByOne(s, new_content) ==
    /\ s \in ScheduleIds
    /\ schedules' = [schedules EXCEPT
           ![s].content_queue = new_content,
           ![s].current_index = IF @ > Len(new_content) THEN 0 ELSE @]
    /\ ret' = Ret("update_schedule_queue", "updated", "none")
    /\ UNCHANGED <<now, clock, accounts, posts, queue, running, redelivered, requests, calc>>

\* update_schedule_queue: the queue is replaced; an index beyond it is reset.
UpdateScheduleQueue(s, new_content) ==
    /\ s \in ScheduleIds
    /\ schedules' = [schedules EXCEPT
           ![s].content_queue = new_content,
           ![s].current_index = IF @ >= Len(new_content) THEN 0 ELSE @]
    /\ ret' = Ret("update_schedule_queue", "updated", "none")
    /\ UNCHANGED <<now, clock, accounts, posts, queue, running, redelivered, requests, calc>>

\* PUT /schedule/{id}/toggle: is_active is flipped; 404 for a schedule that
\* is not the caller's.
ToggleSchedule(s, user_id) ==
    IF ~FindSchedule(s, user_id)
    THEN NotFound("toggle_schedule", "Schedule not found")
    ELSE /\ schedules' = [schedules EXCEPT ![s].is_active = ~@]
         /\ ret' = Ret("toggle_schedule", "success", "none")
         /\ UNCHANGED <<now, clock, accounts, posts, queue, running, redelivered, requests,
                        calc>>

\* DELETE /schedule/{id}: the row is deleted; 404 for a schedule that is not
\* the caller's.
DeleteSchedule(s, user_id) ==
    IF ~FindSchedule(s, user_id)
    THEN NotFound("delete_schedule", "Schedule not found")
    ELSE /\ schedules' = [schedules EXCEPT ![s].deleted = TRUE]
         /\ ret' = Ret("delete_schedule", "success", "none")
         /\ UNCHANGED <<now, clock, accounts, posts, queue, running, redelivered, requests,
                        calc>>

\* pause_schedule: the schedule is deactivated; it raises for an id that has
\* no row.
PauseSchedule(s) ==
    /\ IF s \notin ScheduleIds
       THEN /\ schedules' = schedules
            /\ ret' = Ret("pause_schedule", "raised", "Schedule not found")
       ELSE /\ schedules' = [schedules EXCEPT ![s].is_active = FALSE]
            /\ ret' = Ret("pause_schedule", "paused", "none")
    /\ UNCHANGED <<now, clock, accounts, posts, queue, running, redelivered, requests, calc>>

\* Mutant: the cleanup deletes executed schedules of every kind.
CleanupCompletedSchedules_AnyKind ==
    LET completed == {s \in ScheduleIds :
                         /\ schedules[s].next_execution # NULL
                         /\ schedules[s].next_execution < now - MinutesPerHour
                         /\ schedules[s].last_executed # NULL}
    IN /\ schedules' = [s \in 1..Len(schedules) |->
                           IF s \in completed THEN [schedules[s] EXCEPT !.deleted = TRUE]
                           ELSE schedules[s]]
       /\ ret' = [Ret("cleanup_completed_schedules", "success", "none")
                     EXCEPT !.value = <<Cardinality(completed)>>]
       /\ UNCHANGED <<now, clock, accounts, posts, queue, running, redelivered, requests,
                      calc>>

\* cleanup_completed_schedules: the once schedules that have executed and
\* whose next_execution is more than an hour old are deleted; value holds
\* deleted_count.
CleanupCompletedSchedules ==
    LET completed == {s \in ScheduleIds :
                         /\ schedules[s].config.schedule_type = "once"
                         /\ schedules[s].next_execution # NULL
                         /\ schedules[s].next_execution < now - MinutesPerHour
                         /\ schedules[s].last_executed # NULL}
    IN /\ schedules' = [s \in 1..Len(schedules) |->
                           IF s \in completed THEN [schedules[s] EXCEPT !.deleted = TRUE]
                           ELSE schedules[s]]
       /\ ret' = [Ret("cleanup_completed_schedules", "success", "none")
                     EXCEPT !.value = <<Cardinality(completed)>>]
       /\ UNCHANGED <<now, clock, accounts, posts, queue, running, redelivered, requests,
                      calc>>

\* The days a preview may be asked for; 7 is the default.
PreviewDays == {0, 2, DaysPerWeek}
\* generate_schedule_preview: what each listed time adds to the one before.
PreviewStep(schedule_type) ==
    IF schedule_type = "daily" THEN MinutesPerDay
    ELSE IF schedule_type = "weekly" THEN DaysPerWeek * MinutesPerDay
    ELSE IF schedule_type = "monthly" THEN DaysPerMonthApprox * MinutesPerDay
    ELSE 0
\* generate_schedule_preview: min(days, len(content_queue)) entries, from
\* next_execution (now when it is None) and the item at the cursor onwards.
generate_schedule_preview(s, days) ==
    LET content_queue == schedules[s].content_queue
        n == IF days <= Len(content_queue) THEN days ELSE Len(content_queue)
        current_time == IF schedules[s].next_execution = NULL THEN now
                        ELSE schedules[s].next_execution
    IN [i \in 1..n |->
           [scheduled_time |->
                current_time + (i - 1) * PreviewStep(schedules[s].config.schedule_type),
            content |-> content_queue[
                ((schedules[s].current_index + i - 1) % Len(content_queue)) + 1],
            platforms |-> schedules[s].target_platforms]]

\* Mutant: the preview moves the cursor past the items it listed.
PreviewSchedule_Consumes(s, days, user_id) ==
    IF ~FindSchedule(s, user_id)
    THEN NotFound("preview_schedule", "Schedule not found")
    ELSE /\ ret' = [Ret("preview_schedule", "success", "none")
                       EXCEPT !.value = generate_schedule_preview(s, days)]
         /\ schedules' = [schedules EXCEPT
                ![s].current_index = @ + Len(generate_schedule_preview(s, days))]
         /\ UNCHANGED <<now, clock, accounts, posts, queue, running, redelivered,
                        requests, calc>>

\* GET /schedule/{id}/preview: the upcoming posts are listed from the row,
\* nothing is written; 404 for a schedule that is not the caller's.
PreviewSchedule(s, days, user_id) ==
    IF ~FindSchedule(s, user_id)
    THEN NotFound("preview_schedule", "Schedule not found")
    ELSE /\ ret' = [Ret("preview_schedule", "success", "none")
                       EXCEPT !.value = generate_schedule_preview(s, days)]
         /\ UNCHANGED <<now, clock, accounts, posts, schedules, queue, running, redelivered,
                        requests, calc>>

\* The scheduled times a request may ask for: now or the next instant.
RequestTimes == {now} \cup {Instants[k] : k \in {j \in 1..Len(Instants) : j = clock + 1}}

\* The schedule side: creation, the due scan, the tick, queue replacement.
NextSchedule ==
    \/ AdvanceClock
    \/ \E c \in ScheduleConfigs, q \in ContentQueues, pl \in PlatformLists :
           CreateSchedule(c, q, pl)
    \/ CheckAndExecuteSchedules
    \/ \E m \in BagToSet(queue) : ExecuteScheduleBegin(m)
    \/ \E e \in BagToSet(running) : ExecuteScheduleCommit(e)
    \/ \E s \in ScheduleIds, q \in ContentQueues : UpdateScheduleQueue(s, q)
    \/ \E s \in ScheduleIds : ToggleSchedule(s, DefaultUser)
    \/ \E m \in BagToSet(queue) : Redeliver(m)

\* The dispatch side: upload, the scheduling request, the per-minute scan of
\* Posts, and the publishing tasks.
NextDispatch ==
    \/ AdvanceClock
    \/ UploadFile
    \/ \E p \in PostIds, pl \in PlatformLists, t \in RequestTimes :
           ScheduleSinglePost(p, pl, t, DefaultUser)
    \/ \E m \in BagToSet(queue) : SchedulePostTask(m)
    \/ ProcessScheduledPosts
    \/ \E m \in BagToSet(queue) : MultiStart(m)
    \/ \E e \in BagToSet(running), ok \in BOOLEAN : MultiStep(e, ok)
    \/ \E e \in BagToSet(running) : MultiFinish(e)
    \/ \E m \in BagToSet(queue), ok \in BOOLEAN : PostToPlatform(m, ok)
    \/ \E m \in BagToSet(queue) : Redeliver(m)

\* A Post whose dispatch to facebook and twitter ended partially posted:
\* facebook succeeded, twitter's publish call raised.
PartiallyPosted ==
    [NewPost("partially_posted", Instants[1], 0, NoOrigin, <<"facebook", "twitter">>)
        EXCEPT !.posted_at = Instants[1],
               !.results = <<[platform |-> "facebook", status |-> "success"],
                             [platform |-> "twitter", status |-> "failed"]>>,
               !.pubs = [NoPubs EXCEPT !["facebook"] = 1, !["twitter"] = 1]]
\* The state after that dispatch, and what can follow it.
InitRedispatch ==
    /\ clock = 1
    /\ now = Instants[1]
    /\ accounts = <<"facebook", "twitter">>
    /\ posts = <<PartiallyPosted>>
    /\ schedules = <<>>
    /\ queue = EmptyBag
    /\ running = EmptyBag
    /\ ret = Ret("post_to_multiple_platforms", "success", "none")
    /\ redelivered = 0
    /\ requests = 0
    /\ calc = NoCalc
NextRedispatch ==
    \/ AdvanceClock
    \/ \E p \in PostIds, pl \in PlatformLists, t \in RequestTimes :
           ScheduleSinglePost(p, pl, t, DefaultUser)
    \/ \E m \in BagToSet(queue) : SchedulePostTask(m)
    \/ ProcessScheduledPosts
    \/ \E m \in BagToSet(queue) : MultiStart(m)
    \/ \E e \in BagToSet(running), ok \in BOOLEAN : MultiStep(e, ok)
    \/ \E e \in BagToSet(running) : MultiFinish(e)
    \/ \E m \in BagToSet(queue), ok \in BOOLEAN : PostToPlatform(m, ok)
    \/ \E m \in BagToSet(queue) : Redeliver(m)

\* ------------------------------------------------------- get_file_type
\* A file path is a string; here it is a sequence of pieces whose
\* concatenation is the string. "." and "/" are the two characters
\* os.path.splitext looks for, the other pieces hold neither.
PathTokens == {".", "/", "test", "jpg", "JPG", "jpeg", "png", "gif", "mp4", "avi", "mov",
               "MOV", "txt", "jp", "g"}
FilePaths == UNION {[1..n -> PathTokens] : n \in 0..MaxPathLen}
\* str.lower() on a piece.
lower(tok) ==
    CASE tok = "JPG" -> "jpg"
      [] tok = "MOV" -> "mov"
      [] OTHER -> tok
RECURSIVE Join(_)
Join(pieces) == IF pieces = <<>> THEN "" ELSE Head(pieces) \o Join(Tail(pieces))
\* str.rfind of a one-character string, in pieces: 0 when it is absent.
rfind(file_path, tok) ==
    LET found == {k \in 1..Len(file_path) : file_path[k] = tok}
    IN IF found = {} THEN 0 ELSE CHOOSE k \in found : \A j \in found : j <= k
\* os.path.splitext(file_path)[1]: from the last dot on, when that dot is in
\* the last path component and is not one of its leading dots.
splitext(file_path) ==
    LET sepIndex == rfind(file_path, "/")
        dotIndex == rfind(file_path, ".")
    IN IF /\ dotIndex > sepIndex
          /\ \E k \in (sepIndex + 1)..(dotIndex - 1) : file_path[k] # "."
       THEN SubSeq(file_path, dotIndex, Len(file_path))
       ELSE <<>>
get_file_type_CaseSensitive(file_path) ==
    LET extension == Join(splitext(file_path))
    IN IF extension \in {".jpg", ".jpeg", ".png", ".gif"} THEN "image"
       ELSE IF extension \in {".mp4", ".avi", ".mov"} THEN "video"
       ELSE "unknown"
get_file_type(file_path) ==
    LET ext == splitext(file_path)
        extension == Join([k \in 1..Len(ext) |-> lower(ext[k])])
    IN IF extension \in {".jpg", ".jpeg", ".png", ".gif"} THEN "image"
       ELSE IF extension \in {".mp4", ".avi", ".mov"} THEN "video"
       ELSE "unknown"
\* A call of get_file_type on any path: ret holds the argument, then the
\* result.
InitFileType ==
    /\ clock = 1
    /\ now = Instants[1]
    /\ accounts = <<"twitter">>
    /\ posts = <<>>
    /\ schedules = <<>>
    /\ queue = EmptyBag
    /\ running = EmptyBag
    /\ \E file_path \in FilePaths :
           ret = [task |-> "get_file_type", status |-> "called", reason |-> "none",
                  value |-> file_path]
    /\ redelivered = 0
    /\ requests = 0
    /\ calc = NoCalc
GetFileType ==
    /\ ret.task = "get_file_type"
    /\ ret.status = "called"
    /\ ret' = [ret EXCEPT !.status = "returned", !.reason = get_file_type(ret.value)]
    /\ UNCHANGED <<now, clock, accounts, posts, schedules, queue, running, redelivered,
                   requests, calc>>
NextFileType == GetFileType

\* The recurrence calculators on their own.
InitCalc ==
    /\ clock = 1
    /\ now = Instants[1]
    /\ accounts = <<"twitter">>
    /\ posts = <<>>
    /\ schedules = <<>>
    /\ queue = EmptyBag
    /\ running = EmptyBag
    /\ ret = NoRet
    /\ redelivered = 0
    /\ requests = 0
    /\ \E c \in CalcConfigs, t \in CalcNows :
           calc = [called |-> FALSE, schedule_type |-> c.schedule_type, time |-> c.time,
                   day_of_week |-> c.day_of_week, day_of_month |-> c.day_of_month,
                   datetime |-> c.datetime, now |-> t, task |-> NULL, api |-> NULL,
                   again |-> FALSE, now2 |-> NULL, task2 |-> NULL, api2 |-> NULL]
NextCalc ==
    \/ Calculate
    \/ CalculateAgain

\* The tick on a stored schedule row: a schedule that is due, with any content
\* queue and any integer in the current_index column.
InitCursor ==
    /\ clock = 1
    /\ now = Instants[1]
    /\ accounts = <<"twitter">>
    /\ posts = <<>>
    /\ \E c \in ScheduleConfigs, q \in CursorQueues, i \in StoredCursors :
           schedules = <<[user_id |-> DefaultUser, deleted |-> FALSE,
                          config |-> c,
                          content_queue |-> q, current_index |-> i,
                          target_platforms |-> <<"twitter">>, is_active |-> TRUE,
                          next_execution |-> Instants[1], last_executed |-> NULL,
                          stalled |-> FALSE]>>
    /\ queue = EmptyBag
    /\ running = EmptyBag
    /\ ret = NoRet
    /\ redelivered = 0
    /\ requests = 0
    /\ calc = NoCalc
NextCursor ==
    \/ AdvanceClock
    \/ CheckAndExecuteSchedules
    \/ \E m \in BagToSet(queue) : ExecuteScheduleBegin(m)
    \/ \E e \in BagToSet(running) : ExecuteScheduleCommit(e)
    \/ \E s \in ScheduleIds : ToggleSchedule(s, DefaultUser)
\* The tick on a stored schedule row whose queue is being replaced.
NextReplace ==
    \/ NextCursor
    \/ \E s \in ScheduleIds, q \in CursorQueues : UpdateScheduleQueue(s, q)
\* POST /schedule/create with any configuration.
NextCreate ==
    \/ AdvanceClock
    \/ \E c \in ScheduleConfigs \cup MalformedConfigs, q \in ContentQueues,
          pl \in PlatformLists :
           CreateSchedule(c, q, pl)
\* The request handlers, called by any user for any id.
NextApi ==
    \/ AdvanceClock
    \/ UploadFile
    \/ \E c \in ScheduleConfigs, q \in ContentQueues, pl \in PlatformLists :
           CreateSchedule(c, q, pl)
    \/ \E p \in RequestedPosts, pl \in PlatformLists, t \in RequestTimes, u \in Users :
           ScheduleSinglePost(p, pl, t, u)
    \/ \E s \in RequestedSchedules, u \in Users : ToggleSchedule(s, u)
    \/ \E s \in RequestedSchedules, u \in Users : DeleteSchedule(s, u)
    \/ \E s \in RequestedSchedules, d \in PreviewDays, u \in Users : PreviewSchedule(s, d, u)
\* Preview and tick of a stored recurring schedule at the instant it falls
\* due: now is the next_execution its creation computed.
PreviewConfigs == {c \in RecurringConfigs : c.time = <<9, 0>>}
InitPreview ==
    /\ clock = 1
    /\ accounts = <<"twitter">>
    /\ posts = <<>>
    /\ \E c \in PreviewConfigs, t \in CalcNows, q \in CursorQueues :
           /\ calculate_next_execution(c, t) # Raised
           /\ now = calculate_next_execution(c, t)
           /\ schedules = <<[user_id |-> DefaultUser, deleted |-> FALSE,
                             config |-> c, content_queue |-> q, current_index |-> 0,
                             target_platforms |-> <<"twitter">>, is_active |-> TRUE,
                             next_execution |-> calculate_next_execution(c, t),
                             last_executed |-> NULL, stalled |-> FALSE]>>
    /\ queue = EmptyBag
    /\ running = EmptyBag
    /\ ret = NoRet
    /\ redelivered = 0
    /\ requests = 0
    /\ calc = NoCalc
NextPreview ==
    \/ \E s \in ScheduleIds, d \in PreviewDays : PreviewSchedule(s, d, DefaultUser)
    \/ CheckAndExecuteSchedules
    \/ \E m \in BagToSet(queue) : ExecuteScheduleBegin(m)
    \/ \E e \in BagToSet(running) : ExecuteScheduleCommit(e)
    \/ \E s \in ScheduleIds : ToggleSchedule(s, DefaultUser)
\* The retention cleanup beside the tick, on a stored schedule that has never
\* executed, or whose last tick was three hours ago, or two days and three
\* hours ago.
LastExecutions == {NULL, Instants[1] - 3 * MinutesPerHour,
                   Instants[1] - 2 * MinutesPerDay - 3 * MinutesPerHour}
InitCleanup ==
    /\ clock = 1
    /\ now = Instants[1]
    /\ accounts = <<"twitter">>
    /\ posts = <<>>
    /\ \E c \in ScheduleConfigs, q \in ContentQueues, t \in LastExecutions,
          active \in BOOLEAN :
           schedules = <<[user_id |-> DefaultUser, deleted |-> FALSE,
                          config |-> c, content_queue |-> q, current_index |-> 0,
                          target_platforms |-> <<"twitter">>, is_active |-> active,
                          next_execution |->
                              IF t = NULL THEN calculate_next_execution(c, Instants[1])
                              ELSE calculate_next_execution_time(c, t),
                          last_executed |-> t, stalled |-> FALSE]>>
    /\ queue = EmptyBag
    /\ running = EmptyBag
    /\ ret = NoRet
    /\ redelivered = 0
    /\ requests = 0
    /\ calc = NoCalc
NextCleanup ==
    \/ AdvanceClock
    \/ CleanupCompletedSchedules
    \/ CheckAndExecuteSchedules
    \/ \E m \in BagToSet(queue) : ExecuteScheduleBegin(m)
    \/ \E e \in BagToSet(running) : ExecuteScheduleCommit(e)

\* The tick and the publishing side together: one execute_schedule message
\* in flight for a stored schedule with any target platforms, active or
\* paused, of a user with any active accounts; the per-minute scan of Posts
\* runs beside the dispatch the tick enqueues.
InitPublish ==
    /\ clock = 1
    /\ now = Instants[1]
    /\ accounts \in AccountLists
    /\ posts = <<>>
    /\ \E c \in ScheduleConfigs, q \in ContentQueues, pl \in PlatformLists,
          active \in BOOLEAN :
           schedules = <<[user_id |-> DefaultUser, deleted |-> FALSE,
                          config |-> c, content_queue |-> q, current_index |-> 0,
                          target_platforms |-> pl, is_active |-> active,
                          next_execution |-> Instants[1], last_executed |-> NULL,
                          stalled |-> FALSE]>>
    /\ queue = SetToBag({Msg("execute_schedule", 1, <<>>, 0)})
    /\ running = EmptyBag
    /\ ret = NoRet
    /\ redelivered = 0
    /\ requests = 0
    /\ calc = NoCalc
NextPublish ==
    \/ AdvanceClock
    \/ \E m \in BagToSet(queue) : ExecuteScheduleBegin(m)
    \/ \E e \in BagToSet(running) : ExecuteScheduleCommit(e)
    \/ ProcessScheduledPosts
    \/ \E m \in BagToSet(queue) : MultiStart(m)
    \/ \E e \in BagToSet(running), ok \in BOOLEAN : MultiStep(e, ok)
    \/ \E e \in BagToSet(running) : MultiFinish(e)
    \/ \E m \in BagToSet(queue), ok \in BOOLEAN : PostToPlatform(m, ok)

\* celery beat sends process_scheduled_posts every minute: a minute does not
\* pass before the scan of that minute has run.
MinutePasses ==
    /\ ~ENABLED <<ProcessScheduledPosts>>_vars
    /\ AdvanceClock
NextBeat ==
    \/ MinutePasses
    \/ \E m \in BagToSet(queue) : ExecuteScheduleBegin(m)
    \/ \E e \in BagToSet(running) : ExecuteScheduleCommit(e)
    \/ ProcessScheduledPosts
    \/ \E m \in BagToSet(queue) : MultiStart(m)
    \/ \E e \in BagToSet(running), ok \in BOOLEAN : MultiStep(e, ok)
    \/ \E e \in BagToSet(running) : MultiFinish(e)
    \/ \E m \in BagToSet(queue), ok \in BOOLEAN : PostToPlatform(m, ok)
\* Time passes, beat sends its scan, and the workers take every task that
\* stays in the broker's queue and finish every task they started.
FairBeat ==
    /\ WF_vars(MinutePasses)
    /\ WF_vars(ProcessScheduledPosts)
    /\ WF_vars(\E m \in BagToSet(queue) : ExecuteScheduleBegin(m))
    /\ WF_vars(\E e \in BagToSet(running) : ExecuteScheduleCommit(e))
    /\ WF_vars(\E m \in BagToSet(queue) : MultiStart(m))
    /\ WF_vars(\E e \in BagToSet(running), ok \in BOOLEAN : MultiStep(e, ok))
    /\ WF_vars(\E e \in BagToSet(running) : MultiFinish(e))
    /\ WF_vars(\E m \in BagToSet(queue), ok \in BOOLEAN : PostToPlatform(m, ok))

\* A stored schedule that is due, and the periodic tasks of the beat schedule:
\* process_scheduled_posts is in it, check_and_execute_schedules is not, and
\* no entry of it sends execute_schedule. check_and_execute_schedules runs
\* when something else calls it.
InitDue ==
    /\ clock = 1
    /\ now = Instants[1]
    /\ accounts = <<>>
    /\ posts = <<>>
    /\ \E c \in ScheduleConfigs, q \in ContentQueues, pl \in {<<>>, <<"twitter">>} :
           schedules = <<[user_id |-> DefaultUser, deleted |-> FALSE,
                          config |-> c, content_queue |-> q, current_index |-> 0,
                          target_platforms |-> pl, is_active |-> TRUE,
                          next_execution |-> Instants[1], last_executed |-> NULL,
                          stalled |-> FALSE]>>
    /\ queue = EmptyBag
    /\ running = EmptyBag
    /\ ret = NoRet
    /\ redelivered = 0
    /\ requests = 0
    /\ calc = NoCalc
NextDue ==
    \/ MinutePasses
    \/ ProcessScheduledPosts
    \/ CheckAndExecuteSchedules
    \/ \E m \in BagToSet(queue) : ExecuteScheduleBegin(m)
    \/ \E e \in BagToSet(running) : ExecuteScheduleCommit(e)
    \/ \E m \in BagToSet(queue) : MultiStart(m)
    \/ \E e \in BagToSet(running), ok \in BOOLEAN : MultiStep(e, ok)
    \/ \E e \in BagToSet(running) : MultiFinish(e)
\* Time passes, beat sends the periodic tasks of its schedule, and the workers
\* execute every task that is enqueued.
FairDue ==
    /\ WF_vars(MinutePasses)
    /\ WF_vars(ProcessScheduledPosts)
    /\ WF_vars(\E m \in BagToSet(queue) : ExecuteScheduleBegin(m))
    /\ WF_vars(\E e \in BagToSet(running) : ExecuteScheduleCommit(e))
    /\ WF_vars(\E m \in BagToSet(queue) : MultiStart(m))
    /\ WF_vars(\E e \in BagToSet(running), ok \in BOOLEAN : MultiStep(e, ok))
    /\ WF_vars(\E e \in BagToSet(running) : MultiFinish(e))

\* The tick on a stored schedule that is paused, resumed or deleted meanwhile,
\* with task messages delivered a second time.
NextPause ==
    \/ AdvanceClock
    \/ CheckAndExecuteSchedules
    \/ \E m \in BagToSet(queue) : ExecuteScheduleBegin(m)
    \/ \E e \in BagToSet(running) : ExecuteScheduleCommit(e)
    \/ \E s \in RequestedSchedules : PauseSchedule(s)
    \/ \E s \in ScheduleIds : ToggleSchedule(s, DefaultUser)
    \/ \E s \in ScheduleIds : DeleteSchedule(s, DefaultUser)
    \/ \E m \in BagToSet(queue) : Redeliver(m)

\* The schedule side reads no social account.
InitSchedule == Init /\ accounts = <<"twitter">>
SpecSchedule == InitSchedule /\ [][NextSchedule]_vars
SpecDispatch == Init /\ [][NextDispatch]_vars
SpecCalc == InitCalc /\ [][NextCalc]_vars
SpecFileType == InitFileType /\ [][NextFileType]_vars
SpecRedispatch == InitRedispatch /\ [][NextRedispatch]_vars
SpecCursor == InitCursor /\ [][NextCursor]_vars
SpecReplace == InitCursor /\ [][NextReplace]_vars
SpecCreate == InitSchedule /\ [][NextCreate]_vars
SpecApi == InitSchedule /\ [][NextApi]_vars
SpecPreview == InitPreview /\ [][NextPreview]_vars
SpecCleanup == InitCleanup /\ [][NextCleanup]_vars
SpecPause == InitCleanup /\ [][NextPause]_vars
SpecPublish == InitPublish /\ [][NextPublish]_vars
FairPublish == InitPublish /\ [][NextBeat]_vars /\ FairBeat
FairSchedule == InitDue /\ [][NextDue]_vars /\ FairDue

\* ================================================================ claims
MaterializedPosts == {p \in PostIds : posts[p].origin.schedule_id # 0}
PostsOf(s) == {p \in PostIds : posts[p].origin.schedule_id = s}
Aggregates == {"posted", "partially_posted", "failed"}

\* C1: no target platform receives two publish calls for the same Post
\* attempt, whatever triggers (eta dispatch, per-minute scan, redelivery)
\* reach the Post. Stated of the code, which has no dispatching state.
C1_SingleFanOut ==
    \A p \in PostIds :
        \A k \in 1..Len(posts[p].targets) : posts[p].pubs[posts[p].targets[k]] <= 1

\* C2: ticks that read the same version of a schedule (same cursor,
\* next_execution and last_executed) keep exactly one materialized Post.
C2_OnePostPerVersion ==
    LET SameVersion(o1, o2) ==
            /\ o1.schedule_id = o2.schedule_id
            /\ o1.current_index = o2.current_index
            /\ o1.next_execution = o2.next_execution
            /\ o1.last_executed = o2.last_executed
    IN \A p, q \in MaterializedPosts :
           p # q => ~SameVersion(posts[p].origin, posts[q].origin)

\* C3: a schedule of kind once materializes at most one Post in its lifetime.
C3_OnceAtMostOnePost ==
    \A s \in ScheduleIds :
        schedules[s].config.schedule_type = "once" => Cardinality(PostsOf(s)) <= 1

\* C4: once a schedule of kind once has executed, it is inactive and has no
\* next execution.
C4_OnceTerminal ==
    \A s \in ScheduleIds :
        (schedules[s].config.schedule_type = "once" /\ schedules[s].last_executed # NULL)
            => (~schedules[s].is_active /\ schedules[s].next_execution = NULL)

\* C5: a tick materializes a Post only from a schedule it read as active and
\* due (next_execution <= now); on any other schedule it is a no-op.
C5_TickOnlyWhenDue ==
    \A p \in MaterializedPosts :
        /\ posts[p].origin.is_active
        /\ posts[p].origin.next_execution # NULL
        /\ posts[p].origin.next_execution <= posts[p].origin.at

\* C6: a due tick on an active schedule with an empty queue creates no Post,
\* leaves the schedule row as it is (still due, still active), starts nothing
\* and returns the no-content result.
C6_NoContentTickStalls ==
    [][\A m \in BagToSet(queue) :
          (/\ ExecuteScheduleBegin(m)
           /\ m.id \in ScheduleIds
           /\ IsDue(m.id)
           /\ schedules[m.id].content_queue = <<>>)
          => (/\ schedules' = schedules
              /\ posts' = posts
              /\ running' = running
              /\ queue' = Dequeue(queue, m)
              /\ ret'.status = "skipped"
              /\ ret'.reason = "No content in queue")]_vars
C6_Witness ==
    /\ ret.task = "execute_schedule"
    /\ ret.reason = "No content in queue"
    /\ \E s \in ScheduleIds : IsDue(s) /\ schedules[s].content_queue = <<>>

\* C7: a due tick on an active schedule with a non-empty queue creates one
\* Post with status scheduled and the content of queue[cursor mod L], hands
\* the schedule's target platforms to its dispatch, and stores cursor =
\* (cursor + 1) mod L, last_executed = now and the computed next_execution
\* (when the recurrence computation returns one).
C7_DueTickMaterializes ==
    [][/\ \A m \in BagToSet(queue) :
             (/\ ExecuteScheduleBegin(m)
              /\ m.id \in ScheduleIds
              /\ IsDue(m.id)
              /\ schedules[m.id].content_queue # <<>>)
             => LET sc == schedules[m.id]
                    L == Len(sc.content_queue)
                    new == Len(posts) + 1
                IN /\ Len(posts') = new
                   /\ SubSeq(posts', 1, Len(posts)) = posts
                   /\ posts'[new].status = "scheduled"
                   /\ posts'[new].item = sc.content_queue[(sc.current_index % L) + 1]
                   /\ sc.target_platforms # <<>> =>
                          BagIn(Msg("post_to_multiple_platforms", new,
                                    sc.target_platforms, 0), queue')
       /\ \A e \in BagToSet(running) :
             (/\ ExecuteScheduleCommit(e)
              /\ calculate_next_execution_time(schedules[e.id].config, now) # Raised
              /\ posts[e.local.post_id].origin.is_active
              /\ posts[e.local.post_id].origin.next_execution # NULL
              /\ posts[e.local.post_id].origin.next_execution
                     <= posts[e.local.post_id].origin.at)
             => LET o == posts[e.local.post_id].origin
                IN /\ schedules'[e.id].current_index =
                          ((o.current_index % e.local.queue_len) + 1) % e.local.queue_len
                   /\ schedules'[e.id].last_executed = now
                   /\ schedules'[e.id].next_execution =
                          calculate_next_execution_time(schedules[e.id].config, now)
      ]_vars

\* C8: for a non-empty list of target platforms, the status a dispatch writes
\* is posted when every outcome is a success, failed when none is, and
\* partially_posted otherwise; the outcomes are those of the targets.
C8_AggregateReduction ==
    [][LET Reduction(results) ==
               IF \A k \in 1..Len(results) : results[k].status = "success"
               THEN "posted"
               ELSE IF \A k \in 1..Len(results) : results[k].status # "success"
                    THEN "failed"
                    ELSE "partially_posted"
       IN \A e \in BagToSet(running) :
              (MultiFinish(e) /\ e.platform_ids # <<>>)
              => /\ Len(e.results) = Len(e.platform_ids)
                 /\ \A k \in 1..Len(e.results) :
                        e.results[k].platform = e.platform_ids[k]
                 /\ posts'[e.id].status = Reduction(e.results)]_vars
C8_Witness ==
    \E p \in PostIds :
        /\ Len(posts[p].results) = 2
        /\ posts[p].status = "partially_posted"

\* C9: the status a dispatch writes is the one every reordering of its
\* platform/outcome pairs reduces to.
C9_OrderIndependent ==
    [][LET Permuted(rs, f) == [k \in 1..Len(rs) |-> rs[f[k]]]
       IN \A e \in BagToSet(running) :
              MultiFinish(e)
              => \A f \in Permutations(1..Len(e.results)) :
                     AggregateStatus(Permuted(e.results, f), Len(e.platform_ids))
                         = posts'[e.id].status]_vars
C9_Witness ==
    \E p \in PostIds :
        /\ Len(posts[p].results) = 2
        /\ posts[p].results[1].status = "failed"
        /\ posts[p].results[2].status = "success"
        /\ posts[p].status \in Aggregates

C11_PostedAtIffPosted ==
    \A p \in PostIds :
        (posts[p].posted_at # NULL) <=> (posts[p].status \in {"posted", "partially_posted"})

\* C12: a Post that carries an aggregate status has recorded outcomes, and
\* the status is their reduction (all success: posted, none: failed,
\* otherwise partially_posted).
C12_StatusIsReduction ==
    \A p \in PostIds :
        posts[p].status \in Aggregates
            => /\ posts[p].results # <<>>
               /\ posts[p].status =
                      IF \A k \in 1..Len(posts[p].results) :
                             posts[p].results[k].status = "success"
                      THEN "posted"
                      ELSE IF \A k \in 1..Len(posts[p].results) :
                                  posts[p].results[k].status # "success"
                           THEN "failed"
                           ELSE "partially_posted"

\* C13: no step changes the status of a Post that is posted, failed or
\* cancelled.
C13_TerminalStatus ==
    [][\A p \in PostIds :
          posts[p].status \in {"posted", "failed", "cancelled"}
              => posts'[p].status = posts[p].status]_vars

\* C14: a request that re-dispatches a partially_posted Post to failed
\* platforms only creates no Post and keeps every outcome the earlier attempt
\* recorded.
C14_RedispatchKeepsOutcomes ==
    [][\A p \in PostIds :
          LET old == posts[p].results
              failed == {old[k].platform : k \in {j \in 1..Len(old) : old[j].status = "failed"}}
              targets == posts'[p].targets
          IN (/\ posts[p].status = "partially_posted"
              /\ posts'[p].status = "scheduled"
              /\ targets # <<>>
              /\ \A k \in 1..Len(targets) : targets[k] \in failed)
             => /\ Len(posts') = Len(posts)
                /\ \A k \in 1..Len(old) :
                       \E j \in 1..Len(posts'[p].results) : posts'[p].results[j] = old[k]]_vars

\* C15: in a multi-platform dispatch a platform that fails (its publish call
\* raises, it has no active account, or it has no service) gets a failed
\* outcome, the dispatch goes on (it stays on its worker and ends only with
\* an outcome for every platform), and the task returns without raising.
C15_PlatformFailureIsRecorded ==
    [][/\ \A e \in BagToSet(running), ok \in BOOLEAN :
             (/\ MultiStep(e, ok)
              /\ \/ ~ok
                 \/ ~HasAccount(e.platform_ids[Len(e.results) + 1])
                 \/ ~HasService(e.platform_ids[Len(e.results) + 1]))
             => /\ BagIn([e EXCEPT !.results =
                             Append(@, [platform |-> e.platform_ids[Len(e.results) + 1],
                                        status |-> "failed"])], running')
                /\ ret' = ret
                /\ posts'[e.id].status = posts[e.id].status
       /\ \A e \in BagToSet(running) :
             MultiFinish(e)
             => /\ Len(e.results) = Len(e.platform_ids)
                /\ ret' = Ret("post_to_multiple_platforms", "success", "none")
       /\ ret'.task = "post_to_multiple_platforms" => ret'.status # "raised"]_vars
C15_Witness ==
    /\ ret = Ret("post_to_multiple_platforms", "success", "none")
    /\ HasAccount("linkedin")
    /\ \E p \in PostIds :
           /\ Len(posts[p].results) = 2
           /\ posts[p].results[1] = [platform |-> "linkedin", status |-> "failed"]
           /\ posts[p].results[2] = [platform |-> "twitter", status |-> "success"]
           /\ posts[p].status = "partially_posted"

\* C16: after a tick of a schedule failed in the recurrence computation the
\* schedule is stalled: no later tick of it materializes a Post.
C16_FailedTickStalls ==
    [][\A m \in BagToSet(queue) :
          (/\ ExecuteScheduleBegin(m)
           /\ m.id \in ScheduleIds
           /\ schedules[m.id].stalled)
          => posts' = posts]_vars

\* C17: for the kinds daily, weekly and monthly with valid parameters, both
\* calculators return an instant strictly after now and never fail.
C17_NextAfterNow ==
    (calc.called /\ calc.schedule_type \in {"daily", "weekly", "monthly"})
        => /\ calc.task # Raised /\ calc.task > calc.now
           /\ calc.api # Raised /\ calc.api > calc.now

\* C18: for daily at h:m both calculators return the earliest instant after
\* now whose wall-clock time is h:m; at exactly h:m that is the next day.
C18_DailyNextOccurrence ==
    (calc.called /\ calc.schedule_type = "daily")
        => \A r \in {calc.task, calc.api} :
               /\ r > calc.now
               /\ r - MinutesPerDay <= calc.now
               /\ DateOf(r).hour = calc.time[1]
               /\ DateOf(r).minute = calc.time[2]
               /\ (DateOf(calc.now).hour = calc.time[1]
                      /\ DateOf(calc.now).minute = calc.time[2])
                   => r = calc.now + MinutesPerDay
C18_Witness ==
    /\ calc.called
    /\ calc.schedule_type = "daily"
    /\ calc.time = <<9, 0>>
    /\ calc.now = MakeInstant(2024, 1, 31, 9, 0)
    /\ calc.task = MakeInstant(2024, 2, 1, 9, 0)
    /\ calc.api = calc.task

\* C19: for weekly with day_of_week d (1 = Monday ... 7 = Sunday) at time t
\* both calculators return the next instant after now on weekday d at time
\* t, at most seven days ahead.
C19_WeeklyNextOccurrence ==
    (calc.called /\ calc.schedule_type = "weekly")
        => \A r \in {calc.task, calc.api} :
               /\ r > calc.now
               /\ r - DaysPerWeek * MinutesPerDay <= calc.now
               /\ DateOf(r).weekday = calc.day_of_week - 1
               /\ DateOf(r).hour = calc.time[1]
               /\ DateOf(r).minute = calc.time[2]

\* C20: for monthly both calculators return a result for every now, on
\* day_of_month clipped to the last day of the month the result lies in.
C20_MonthlyClips ==
    (calc.called /\ calc.schedule_type = "monthly")
        => \A r \in {calc.task, calc.api} :
               /\ r # Raised
               /\ DateOf(r).day =
                      IF calc.day_of_month > DaysInMonth(DateOf(r).year, DateOf(r).month)
                      THEN DaysInMonth(DateOf(r).year, DateOf(r).month)
                      ELSE calc.day_of_month

\* C21: for a one-shot schedule every computation of the next execution, the
\* one made at creation and the one a tick or a resume makes, returns the
\* configured instant verbatim, also when it is in the past, and fails only
\* when the instant is missing.
C21_OnceVerbatim ==
    (calc.called /\ calc.schedule_type = "once")
        => \A r \in {calc.task, calc.api} :
               IF calc.datetime = NULL THEN r = Raised ELSE r = calc.datetime

\* C22: for a kind other than once, daily, weekly and monthly, whose
\* parameters carry nothing that parses, both calculators fail; neither
\* substitutes a default such as now plus one hour.
C22_UnknownKindFails ==
    (calc.called /\ calc.schedule_type \notin {"once", "daily", "weekly", "monthly"})
        => /\ calc.task = Raised
           /\ calc.api = Raised

\* C23: two calls of a calculator with the same recurring kind and the same
\* parameters, made by one caller for one instant, return the same result,
\* whatever the clock reads inside the calls.
C23_Deterministic ==
    (calc.called /\ calc.again /\ calc.schedule_type \in {"daily", "weekly", "monthly"})
        => /\ calc.task2 = calc.task
           /\ calc.api2 = calc.api

C25_ModuloAdvance ==
    [][/\ \A m \in BagToSet(queue) :
              (/\ ExecuteScheduleBegin(m)
               /\ m.id \in ScheduleIds
               /\ schedules[m.id].is_active
               /\ schedules[m.id].content_queue # <<>>
               /\ schedules[m.id].current_index >= 0)
                  => /\ Len(posts') = Len(posts) + 1
                     /\ posts'[Len(posts')].item =
                            schedules[m.id].content_queue[
                                (schedules[m.id].current_index
                                    % Len(schedules[m.id].content_queue)) + 1]
       /\ \A e \in BagToSet(running) :
              (/\ ExecuteScheduleCommit(e)
               /\ ret'.status # "raised"
               /\ posts[e.local.post_id].origin.current_index >= 0)
                  => schedules'[e.id].current_index =
                         (posts[e.local.post_id].origin.current_index + 1)
                             % Len(schedules[e.id].content_queue)
      ]_vars

\* C26: with an unchanged queue of length L >= 1 and a cursor in 0..L-1, a
\* tick that begins when no other tick of the schedule is in progress posts the item that follows, in
\* queue order and wrapping from the last to the first, the item the tick
\* before it posted: L consecutive ticks post every item exactly once.
C26_RoundRobin ==
    [][\A m \in BagToSet(queue) :
           (/\ ExecuteScheduleBegin(m)
            /\ running = EmptyBag
            /\ schedules[m.id].current_index >= 0
            /\ schedules[m.id].current_index < Len(schedules[m.id].content_queue)
            /\ posts # <<>>
            /\ Len(posts') = Len(posts) + 1)
               => posts'[Len(posts')].item =
                      schedules[m.id].content_queue[
                          (posts[Len(posts)].item % Len(schedules[m.id].content_queue)) + 1]
      ]_vars

\* C27: replacing the queue of a schedule stores the new queue and sets the
\* cursor to 0 exactly when the old cursor is >= the new length (so always
\* for an empty new queue); otherwise the cursor keeps its value.
C27_ReplaceResetsOutOfRange ==
    [][\A s \in ScheduleIds, q \in CursorQueues :
           UpdateScheduleQueue(s, q)
               => /\ schedules'[s].content_queue = q
                  /\ \/ /\ schedules[s].current_index >= Len(q)
                        /\ schedules'[s].current_index = 0
                     \/ /\ schedules[s].current_index < Len(q)
                        /\ schedules'[s].current_index = schedules[s].current_index
      ]_vars
\* A tick read cursor 2 of a queue of three, has not written the row, and the
\* queue was replaced by one of two items: the cursor is 0.
C27_Witness ==
    /\ ret.task = "update_schedule_queue"
    /\ schedules[1].content_queue = <<1, 2>>
    /\ schedules[1].current_index = 0
    /\ schedules[1].last_executed = NULL
    /\ \E p \in PostIds : posts[p].origin.current_index = 2 /\ posts[p].item = 3

\* C28: in every reachable state, whatever the interleaving of queue
\* replacements with ticks of the same schedule, the stored cursor of every
\* schedule is at least 0 and below max(1, length of its current queue).
C28_CursorInRange ==
    \A s \in ScheduleIds :
        /\ schedules[s].current_index >= 0
        /\ schedules[s].current_index <
               (IF Len(schedules[s].content_queue) >= 1
                THEN Len(schedules[s].content_queue) ELSE 1)

\* C29: a creation request with a malformed recurrence configuration (a time
\* that is no time of day, a one-shot without its instant, day_of_week
\* outside 1..7, day_of_month outside 1..31, an unknown kind) persists
\* nothing: every stored schedule has a well-formed configuration.
C29_MalformedRejected ==
    \A s \in ScheduleIds :
        LET c == schedules[s].config
        IN /\ c.schedule_type \in {"once", "daily", "weekly", "monthly"}
           /\ c.schedule_type = "once" => c.datetime # NULL
           /\ c.schedule_type # "once" => c.time[1] \in 0..23 /\ c.time[2] \in 0..59
           /\ c.schedule_type = "weekly" => c.day_of_week \in 1..DaysPerWeek
           /\ c.schedule_type = "monthly" => c.day_of_month \in 1..31

\* C30: toggling, deleting or previewing a schedule, and scheduling a single
\* post, when the schedule or post does not exist or belongs to another user,
\* answer not-found, change no row and enqueue no task.
C30_NotFoundChangesNothing ==
    [][/\ \A s \in RequestedSchedules, u \in Users :
              (/\ ~(s \in 1..Len(schedules) /\ ~schedules[s].deleted
                       /\ schedules[s].user_id = u)
               /\ \/ ToggleSchedule(s, u)
                  \/ DeleteSchedule(s, u)
                  \/ \E d \in PreviewDays : PreviewSchedule(s, d, u))
                  => /\ ret'.status = "not_found"
                     /\ UNCHANGED <<schedules, posts, queue, running>>
       /\ \A p \in RequestedPosts, u \in Users :
              (/\ ~(p \in PostIds /\ posts[p].user_id = u)
               /\ \E pl \in PlatformLists, t \in RequestTimes : ScheduleSinglePost(p, pl, t, u))
                  => /\ ret'.status = "not_found"
                     /\ UNCHANGED <<schedules, posts, queue, running>>
      ]_vars
\* A request to schedule a Post was answered not-found while a Post and a
\* schedule exist; the Post is still as uploaded and nothing is enqueued.
C30_Witness ==
    /\ ret = Ret("schedule_single_post", "not_found", "Post not found")
    /\ Len(posts) = 1
    /\ posts[1].status = "uploaded"
    /\ ScheduleIds # {}
    /\ queue = EmptyBag

\* C31: previewing a schedule leaves its cursor, queue, next_execution,
\* last_executed and is_active as they are, creates no Post and enqueues no
\* task.
C31_PreviewHasNoEffect ==
    [][\A s \in ScheduleIds, d \in PreviewDays :
           PreviewSchedule(s, d, DefaultUser)
               => /\ schedules'[s].current_index = schedules[s].current_index
                  /\ schedules'[s].content_queue = schedules[s].content_queue
                  /\ schedules'[s].next_execution = schedules[s].next_execution
                  /\ schedules'[s].last_executed = schedules[s].last_executed
                  /\ schedules'[s].is_active = schedules[s].is_active
                  /\ posts' = posts
                  /\ queue' = queue
                  /\ running' = running
      ]_vars
\* A preview listed two upcoming posts of a schedule that has executed once.
C31_Witness ==
    /\ ret.task = "preview_schedule"
    /\ Len(ret.value) = 2
    /\ schedules[1].last_executed # NULL
    /\ schedules[1].current_index = 1
    /\ Len(posts) = 1

\* C32: preview and execution advance alike: for a daily, weekly or monthly
\* schedule the second time the preview lists is the next_execution the
\* schedule holds after a tick taken at its due instant.
C32_PreviewMatchesExecution ==
    [][\A e \in BagToSet(running) :
           (/\ ExecuteScheduleCommit(e)
            /\ now = schedules[e.id].next_execution
            /\ Len(schedules[e.id].content_queue) >= 2
            /\ ret'.status # "raised")
               => schedules'[e.id].next_execution =
                      generate_schedule_preview(e.id, 2)[2].scheduled_time
      ]_vars

\* C33: every schedule the retention cleanup deletes is of kind once and has
\* executed; it deletes no daily, weekly, monthly or custom schedule and no
\* once schedule that has not executed.
C33_CleanupAfterExhaustion ==
    [][CleanupCompletedSchedules
           => \A s \in 1..Len(schedules) :
                  (~schedules[s].deleted /\ schedules'[s].deleted)
                      => /\ schedules[s].config.schedule_type = "once"
                         /\ schedules[s].last_executed # NULL
      ]_vars
\* The cleanup deleted a once schedule.
C33_Witness ==
    /\ ret.task = "cleanup_completed_schedules"
    /\ ret.value = <<1>>
    /\ schedules[1].deleted
    /\ schedules[1].config.schedule_type = "once"

\* C34: get_file_type classifies a path by its lower-cased extension only:
\* a name followed by a dot and jpg, jpeg, png or gif in any case is an
\* image; by mp4, avi or mov a video; by anything else unknown; a path with
\* no dot is unknown; and the result is always one of the three values.
C34_FileTypeByExtension ==
    (ret.task = "get_file_type" /\ ret.status = "returned") =>
        LET p == ret.value
            n == Len(ret.value)
        IN /\ ret.reason \in {"image", "video", "unknown"}
           /\ (\A k \in 1..n : p[k] # ".") => ret.reason = "unknown"
           /\ (/\ n >= 3
               /\ p[n - 2] \notin {".", "/"}
               /\ p[n - 1] = "."
               /\ p[n] \notin {".", "/"})
              => ret.reason =
                     (IF lower(p[n]) \in {"jpg", "jpeg", "png", "gif"} THEN "image"
                      ELSE IF lower(p[n]) \in {"mp4", "avi", "mov"} THEN "video"
                      ELSE "unknown")
C34_Witness ==
    /\ ret.task = "get_file_type"
    /\ ret.status = "returned"
    /\ ret.value = <<"test", ".", "JPG">>
    /\ ret.reason = "image"

\* C35: a Post materialized by a schedule tick receives publish calls only
\* for platforms in the target platforms of the schedule it came from,
\* whether the target set is empty or the per-minute scan runs beside the
\* dispatch the tick enqueued.
C35_PublishedOnlyToTargets ==
    \A p \in MaterializedPosts :
        \A pl \in Platforms :
            posts[p].pubs[pl] > 0 => \E k \in 1..Len(posts[p].targets) : posts[p].targets[k] = pl

\* C36: a tick is all-or-nothing: once no execute_schedule task of a schedule
\* is running, every Post materialized from the schedule is matched by an
\* advance of the schedule row made at or after the Post was committed
\* (last_executed is set and not older than the Post), so Posts and advances
\* are equal in number also after a tick that failed.
C36_TickAllOrNothing ==
    \A p \in MaterializedPosts :
        LET s == posts[p].origin.schedule_id
        IN (/\ s \in ScheduleIds
            /\ ~\E e \in BagToSet(running) : e.task = "execute_schedule" /\ e.id = s)
           => /\ schedules[s].last_executed # NULL
              /\ schedules[s].last_executed >= posts[p].origin.at

\* C37: under fair scans and fair task execution every Post that has status
\* scheduled and whose scheduled time is reached eventually leaves the status
\* scheduled, whatever accounts its owner has and however long it is overdue.
C37_ScheduledPostLeaves ==
    \A p \in 1..MaxPosts :
        (p \in PostIds /\ posts[p].status = "scheduled" /\ posts[p].scheduled_time <= now)
            ~> (p \in PostIds /\ posts[p].status # "scheduled")

\* C38: under fair execution of the periodic tasks of the beat schedule and
\* of the tasks they enqueue, every active schedule of any kind that is due
\* and has a non-empty queue eventually has a Post materialized from it,
\* unless it is paused or deleted first.
C38_DueScheduleEventuallyTicks ==
    \A s \in 1..MaxSchedules :
        (s \in ScheduleIds /\ IsDue(s) /\ schedules[s].content_queue # <<>>)
            ~> (PostsOf(s) # {} \/ s \notin ScheduleIds \/ ~schedules[s].is_active)

\* C39: a tick that starts when its schedule is paused or deleted, whether
\* it comes from the scan or from a redelivered task, materializes no Post
\* and dispatches nothing: it only ends, with the skipped result.
C39_NoTickAfterPauseOrDelete ==
    [][\A m \in BagToSet(queue) :
          (/\ ExecuteScheduleBegin(m)
           /\ (m.id \notin ScheduleIds \/ ~schedules[m.id].is_active))
          => /\ posts' = posts
             /\ queue' = Dequeue(queue, m)
             /\ running' = running
             /\ schedules' = schedules
             /\ ret'.status = "skipped"]_vars
C39_Witness ==
    /\ ret.task = "execute_schedule"
    /\ ret.reason = "Schedule not found or inactive"
    /\ redelivered > 0
    /\ \E s \in ScheduleIds : ~schedules[s].is_active /\ PostsOf(s) # {}

\* C40: the two recurrence implementations agree: for every kind, every
\* parameter set and every now, calculate_next_execution (creation) and
\* calculate_next_execution_time (tick, resume) return the same instant or
\* both fail.
C40_CalculatorsAgree ==
    calc.called => calc.api = calc.task
====
